---- MODULE Spec2Model ----
(***************************************************************************)
(* Model of the MCP SQL agent backend: the FastAPI lifespan and /query     *)
(* handler (backend/main.py) driving the one shared MCPClient              *)
(* (backend/mcp_client.py).  Every action is the code between two awaits   *)
(* of one asyncio task; request tasks interleave at their awaits.          *)
(***************************************************************************)
EXTENDS Integers, Sequences, FiniteSets, TLC

VARIABLES
    phase,         \* position of the lifespan task
    exit_stack,    \* MCPClient.exit_stack: the contexts entered, in order
    session,       \* MCPClient.session: "None" or "ClientSession"
    initialized,   \* whether session.initialize() has returned
    tools,         \* MCPClient.tools
    cleanups,      \* number of executions of MCPClient.cleanup
    accepted,      \* number of /query requests accepted so far
    tool_rounds,   \* number of engine responses that held a tool_use block
    messages,      \* MCPClient.messages, shared by all requests
    pc,            \* position of each request task
    qid,           \* the question string of each request
    response,      \* local response_message of each request
    idx,           \* position of the for loop over response_message
    tool_results,  \* local tool_results of each request
    calls,         \* call_tool traffic of the current round of each request
    llm_request,   \* the messages.create request a task is awaiting
    result,        \* the HTTP answer of each request
    caller,        \* the front end's httpx call of each request
    rounds,        \* passes of the while loop each request has completed
    engine,        \* the kind of reasoning engine the run talks to
    sessions,      \* the requests that come from a Streamlit session
    history        \* st.session_state.messages of that session

vars == <<phase, exit_stack, session, initialized, tools, cleanups, accepted, tool_rounds,
          messages, pc, qid, response, idx, tool_results, calls, llm_request,
          result, caller, rounds, engine, sessions, history>>

\* The engine and the clients are outside the program: no step changes
\* what they are.
lifecycle == <<phase, exit_stack, session, initialized, tools, cleanups, engine,
               sessions>>
queries == <<accepted, tool_rounds, messages, pc, qid, response, idx,
             tool_results, calls, llm_request, result, caller, rounds, engine,
             sessions, history>>

\* ------------------------------------------------------------- bounds
\* Requests accepted over one process run.
MaxQueries == 2
\* Engine responses holding a tool_use block over one process run; once
\* they are used up the engine answers without a tool call.
MaxToolRounds == 1
\* Responses an engine that always asks for a tool gives over one process
\* run, before it stops answering.
MaxLoopRounds == 2

\* Request tasks that can be in flight together.
Requests == {"r1", "r2"}

\* ------------------------------------------------------------- values
Last(s) == s[Len(s)]

IsPrefix(s, t) == Len(s) <= Len(t) /\ SubSeq(t, 1, Len(s)) = s

\* Python values: a str is its characters, a list its items.
PyStr(chars) == [py |-> "str", chars |-> chars]
PyList(items) == [py |-> "list", items |-> items]
PyDict == [py |-> "dict", entries |-> <<>>]

\* The tools server.py registers (two of its six are enough here).
ServerTools == <<"create_sql", "run_sqlite_query">>

ToolDescriptor(name) ==
    [name |-> name, description |-> "doc", input_schema |-> "schema"]

\* Blocks of an engine response are API objects; cls names the class.
TextBlock == [cls |-> "TextBlock", type |-> "text", text |-> "answer"]

ToolUseBlock(id, name, input) ==
    [cls |-> "ToolUseBlock", type |-> "tool_use", id |-> id, name |-> name,
     input |-> input]

\* Argument mappings the engine may put into a tool_use block.
StructuredInput == [sql_dict |-> PyDict]
EncodedInput == [sql_dict |-> PyStr(<<"{", "}">>)]
BrokenInput == [sql_dict |-> PyStr(<<"{", "a">>)]
PlainInput == [sql_dict |-> PyStr(<<"a">>)]

\* The responses the engine may give to engine call n of question q; call
\* identifiers are unique over the run.
FinalResponses == {<<TextBlock>>}

ToolResponses(q, n) ==
    LET id(i) == <<q, n, i>>
    IN  { <<ToolUseBlock(id(1), "run_sqlite_query", EncodedInput),
            ToolUseBlock(id(2), "create_sql", BrokenInput),
            TextBlock,
            ToolUseBlock(id(4), "drop_table", PlainInput)>>,
          <<ToolUseBlock(id(1), "create_sql", BrokenInput)>> }

\* The response of the engine that always asks for a tool.
LoopResponses(q, n) ==
    { <<TextBlock, ToolUseBlock(<<q, n, 2>>, "run_sqlite_query", StructuredInput)>> }

IsServerTool(name) == \E i \in 1..Len(ServerTools) : ServerTools[i] = name

\* What the transport can do with one call_tool: answer with a result whose
\* isError flag is off or on, or raise.  The server answers a call of a
\* tool it does not have with the flag on.
TransportReplies(name) ==
    LET all ==
          { [raised |-> FALSE, isError |-> FALSE,
             content |-> <<[cls |-> "TextContent", type |-> "text", text |-> "rows"]>>],
            [raised |-> FALSE, isError |-> TRUE,
             content |-> <<[cls |-> "TextContent", type |-> "text", text |-> "failed"]>>],
            [raised |-> TRUE, error |-> "McpError"] }
    IN  {reply \in all : IsServerTool(name) \/ reply.raised \/ reply.isError}

\* ------------------------------------------------------------- helpers
\* json.loads on the strings used here: "{}" is the only one of them that
\* is a JSON document; it decodes to the empty dict, the others raise.
JsonDecodes(chars) == chars = <<"{", "}">>

JsonLoads(chars) == PyDict

\* isinstance(v, str) and v.startswith('{')
LooksEncoded(v) == v.py = "str" /\ Len(v.chars) > 0 /\ v.chars[1] = "{"

\* The decoding as the specification words it: a value that fails to decode
\* is passed through unchanged.
NormaliseLenient(tool_input) ==
    [raised |-> FALSE,
     value |-> [k \in DOMAIN tool_input |->
                   IF LooksEncoded(tool_input[k]) /\ JsonDecodes(tool_input[k].chars)
                   THEN JsonLoads(tool_input[k].chars)
                   ELSE tool_input[k]]]

\* The dict comprehension of line 85: it raises if any value that looks
\* encoded fails to decode, else it yields the mapping with those decoded.
Normalise(tool_input) ==
    IF \E k \in DOMAIN tool_input :
          LooksEncoded(tool_input[k]) /\ ~JsonDecodes(tool_input[k].chars)
    THEN [raised |-> TRUE, error |-> "JSONDecodeError"]
    ELSE [raised |-> FALSE,
          value |-> [k \in DOMAIN tool_input |->
                        IF LooksEncoded(tool_input[k])
                        THEN JsonLoads(tool_input[k].chars)
                        ELSE tool_input[k]]]

\* A test that takes a response holding a text block for the final answer.
HasToolCallNoText(blocks) ==
    /\ \E i \in 1..Len(blocks) : blocks[i].type = "tool_use"
    /\ \A i \in 1..Len(blocks) : blocks[i].type # "text"

\* all(...) in the place of any(...)
HasToolCallAll(blocks) == \A i \in 1..Len(blocks) : blocks[i].type = "tool_use"

\* any(block.type == "tool_use" for block in response_message)
HasToolCall(blocks) == \E i \in 1..Len(blocks) : blocks[i].type = "tool_use"

\* A loop that gives up after one round.
BreaksAfterOne(blocks, n) == ~HasToolCall(blocks) \/ n >= 1

\* The one exit of the while True loop of line 53: the break of lines 69-71.
\* The number n of rounds gone through does not enter.
Breaks(blocks, n) == ~HasToolCall(blocks)

\* except json.JSONDecodeError in the place of except Exception
CaughtDecodeOnly(error) == error = "JSONDecodeError"

\* except Exception: every failure of json.loads and of call_tool is one;
\* asyncio.CancelledError is a BaseException and is not.
Caught(error) == error # "CancelledError"

\* A success outcome that copies the text of the payload's first item into
\* a dict of its own.
ToolResultAsText(id, content) ==
    [cls |-> "dict", type |-> "tool_result", tool_use_id |-> id,
     content |-> <<[cls |-> "dict", type |-> "text", text |-> content[1].text]>>]

\* The tool_result dict appended on success (lines 88-94).
ToolResult(id, content) ==
    [cls |-> "dict", type |-> "tool_result", tool_use_id |-> id,
     content |-> content]

\* The tool_result dict appended by the except branch (lines 97-104).
ErrorResult(id, error) ==
    [cls |-> "dict", type |-> "tool_result", tool_use_id |-> id,
     content |-> <<[cls |-> "dict", type |-> "text",
                    text |-> <<"Error executing tool: ", error>>]>>,
     is_error |-> TRUE]

\* tool_results.insert(0, outcome)
RecordFirst(results, outcome) == <<outcome>> \o results

\* tool_results.append(outcome), lines 88 and 97.
Record(results, outcome) == Append(results, outcome)

\* What lines 86-104 append for a tool_use block once call_tool is over.
Outcome(block, reply) ==
    IF reply.raised
    THEN ErrorResult(block.id, reply.error)
    ELSE ToolResult(block.id, reply.content)

\* A for loop that calls a tool a second time when its call has raised.
RECURSIVE ToolLoopRetry(_, _, _)
ToolLoopRetry(blocks, i, results) ==
    IF /\ i > 1
       /\ blocks[i - 1].type = "tool_use"
       /\ ~Normalise(blocks[i - 1].input).raised
       /\ results # <<>>
       /\ "is_error" \in DOMAIN Last(results)
       /\ Cardinality({j \in 1..Len(results) :
              results[j].tool_use_id = blocks[i - 1].id}) = 1
    THEN [at |-> "call", idx |-> i - 1, results |-> results]
    ELSE IF i > Len(blocks)
    THEN [at |-> "end", idx |-> i, results |-> results]
    ELSE IF blocks[i].type # "tool_use"
    THEN ToolLoopRetry(blocks, i + 1, results)
    ELSE IF Normalise(blocks[i].input).raised
    THEN ToolLoopRetry(blocks, i + 1,
                       Record(results,
                              ErrorResult(blocks[i].id, Normalise(blocks[i].input).error)))
    ELSE [at |-> "call", idx |-> i, results |-> results]

\* The for loop of lines 75-104 from block i on, up to its next await: it
\* stops at the tool_use block whose call_tool it awaits, or at the end.
RECURSIVE ToolLoop(_, _, _)
ToolLoop(blocks, i, results) ==
    IF i > Len(blocks)
    THEN [at |-> "end", idx |-> i, results |-> results]
    ELSE IF blocks[i].type # "tool_use"
    THEN ToolLoop(blocks, i + 1, results)
    ELSE IF Normalise(blocks[i].input).raised
    THEN ToolLoop(blocks, i + 1,
                  Record(results,
                         ErrorResult(blocks[i].id, Normalise(blocks[i].input).error)))
    ELSE [at |-> "call", idx |-> i, results |-> results]

UserTurn(query) == [role |-> "user", content |-> PyStr(<<query>>)]

\* self.messages.append({"role": "user", "content": query})
ExtendStore(msgs, query) == Append(msgs, UserTurn(query))

\* self.messages = [{"role": "user", "content": query}], line 51: the
\* store is bound to a new list whatever it held.
NewStore(msgs, query) == <<UserTurn(query)>>

\* self.messages[-1:] = [turn]
ReplaceLastTurn(msgs, turn) ==
    IF msgs = <<>> THEN <<turn>> ELSE Append(SubSeq(msgs, 1, Len(msgs) - 1), turn)

\* self.messages.append(turn), lines 65 and 106.
AppendTurn(msgs, turn) == Append(msgs, turn)

AssistantTurn(blocks) == [role |-> "assistant", content |-> PyList(blocks)]
ToolResultTurn(results) == [role |-> "user", content |-> PyList(results)]

\* A conversion that keeps the type of an item only.
SerializeItemTypeOnly(item) == [cls |-> "dict", type |-> item.type]

\* item.dict() if hasattr(item, 'dict') else item
SerializeItem(item) ==
    IF item.cls # "dict" THEN [item EXCEPT !.cls = "dict"] ELSE item

\* Lines 109-122.
SerializeMessage(msg) ==
    IF msg.content.py = "list"
    THEN [role |-> msg.role,
          content |-> PyList([i \in 1..Len(msg.content.items) |->
                                 SerializeItem(msg.content.items[i])])]
    ELSE msg

\* A serialization without the else branch of line 119: a Turn whose content
\* is a str is left out.
SerializeListsOnly(msgs) ==
    LET HasList(msg) == msg.content.py = "list"
        kept == SelectSeq(msgs, HasList)
    IN  [i \in 1..Len(kept) |-> SerializeMessage(kept[i])]

Serialize(msgs) == [i \in 1..Len(msgs) |-> SerializeMessage(msgs[i])]

\* What the front end's response.json() (chatbot.py 126) yields for the
\* body made of the handler's return value (main.py 50): dicts all the way
\* down, the objects left inside a tool_result's content included.
ParseBody(out) ==
    LET AsDict(x) == [x EXCEPT !.cls = "dict"]
        Item(x) ==
          IF "content" \in DOMAIN x
          THEN [AsDict(x) EXCEPT
                  !.content = [i \in 1..Len(x.content) |-> AsDict(x.content[i])]]
          ELSE AsDict(x)
        Turn(msg) ==
          IF msg.content.py = "list"
          THEN [role |-> msg.role,
                content |-> PyList([i \in 1..Len(msg.content.items) |->
                                       Item(msg.content.items[i])])]
          ELSE msg
    IN  [n \in 1..Len(out) |-> Turn(out[n])]

NoRequest == [messages |-> <<>>, tools |-> <<>>]
NoResult == [status |-> 0]

\* A handler that answers a failure with the messages gathered so far.
HandlerSwallows(error) == [status |-> 200, messages |-> Serialize(messages)]

\* The /query handler's two exits (main.py lines 48-52).
HandlerReturns(msgs) == [status |-> 200, messages |-> msgs]
HandlerRaises(error) == [status |-> 500, detail |-> error]

InFlight(r) == pc[r] \in {"llm", "tool"}

\* ------------------------------------------------------------- lifespan
Boot(kind, clients) ==
    /\ engine = kind
    /\ sessions = clients
    /\ phase = "connect_stdio"
    /\ exit_stack = <<>>
    /\ session = "None"
    /\ initialized = FALSE
    /\ tools = <<>>
    /\ cleanups = 0
    /\ accepted = 0
    /\ tool_rounds = 0
    /\ messages = <<>>
    /\ pc = [r \in Requests |-> "idle"]
    /\ qid = [r \in Requests |-> 0]
    /\ response = [r \in Requests |-> <<>>]
    /\ idx = [r \in Requests |-> 0]
    /\ tool_results = [r \in Requests |-> <<>>]
    /\ calls = [r \in Requests |-> <<>>]
    /\ llm_request = [r \in Requests |-> NoRequest]
    /\ result = [r \in Requests |-> NoResult]
    /\ caller = [r \in Requests |-> "idle"]
    /\ rounds = [r \in Requests |-> 0]
    /\ history = [r \in Requests |-> <<>>]

\* An engine that answers as it likes, and plain HTTP clients.
Init == Boot("any", {})

\* An engine that answers every submission with a tool call.
LoopInit == Boot("always_tool", {})

\* One Streamlit session (its history is empty, chatbot.py 8-9) next to
\* another client.
FrontInit == Boot("any", {"r1"})

\* MCPClient.cleanup: exit_stack.aclose() leaves every entered context.
Cleanup ==
    /\ cleanups' = cleanups + 1
    /\ exit_stack' = <<>>

\* cleanup placed after the yield instead of in a finally
StartupFailsNoCleanup ==
    /\ phase' = "crashed"
    /\ UNCHANGED <<exit_stack, session, initialized, tools, cleanups>>

\* an except in connect_to_server that does not raise again: lifespan goes
\* on to app.state.client and its yield
StartupFailsSwallowed ==
    /\ phase' = "serving"
    /\ UNCHANGED <<exit_stack, session, initialized, tools, cleanups>>

\* The finally of lifespan once connect_to_server has raised: the except of
\* connect_to_server re-raises, cleanup runs, the exception leaves lifespan.
StartupFails ==
    /\ Cleanup
    /\ phase' = "crashed"
    /\ UNCHANGED <<session, initialized, tools>>

\* await exit_stack.enter_async_context(stdio_client(server_params))
ConnectStdio ==
    /\ phase = "connect_stdio"
    /\ \/ /\ exit_stack' = Append(exit_stack, "stdio_client")
          /\ phase' = "connect_session"
          /\ UNCHANGED <<session, initialized, tools, cleanups>>
       \/ StartupFails
    /\ UNCHANGED queries

\* self.session = await exit_stack.enter_async_context(ClientSession(...))
ConnectSession ==
    /\ phase = "connect_session"
    /\ \/ /\ exit_stack' = Append(exit_stack, "ClientSession")
          /\ session' = "ClientSession"
          /\ phase' = "initialize"
          /\ UNCHANGED <<initialized, tools, cleanups>>
       \/ StartupFails
    /\ UNCHANGED queries

\* await self.session.initialize()
ConnectInitialize ==
    /\ phase = "initialize"
    /\ \/ /\ initialized' = TRUE
          /\ phase' = "list_tools"
          /\ UNCHANGED <<exit_stack, session, tools, cleanups>>
       \/ StartupFails
    /\ UNCHANGED queries

\* await self.session.list_tools(), self.tools, app.state.client, yield
ConnectListTools ==
    /\ phase = "list_tools"
    /\ \/ /\ tools' = [i \in 1..Len(ServerTools) |-> ToolDescriptor(ServerTools[i])]
          /\ phase' = "serving"
          /\ UNCHANGED <<exit_stack, session, initialized, cleanups>>
       \/ StartupFails
    /\ UNCHANGED queries

\* The server stops: it accepts no more requests, waits for the request
\* tasks in flight, then resumes lifespan after its yield.
Shutdown ==
    /\ phase = "serving"
    /\ \A r \in Requests : ~InFlight(r)
    /\ Cleanup
    /\ phase' = "stopped"
    /\ UNCHANGED <<session, initialized, tools>>
    /\ UNCHANGED queries

\* ------------------------------------------------------------- /query
\* The engine's answers to the next messages.create of question q.
EngineResponses(q) ==
    IF engine = "always_tool"
    THEN IF tool_rounds < MaxLoopRounds THEN LoopResponses(q, tool_rounds + 1) ELSE {}
    ELSE FinalResponses \cup
         (IF tool_rounds < MaxToolRounds THEN ToolResponses(q, tool_rounds + 1) ELSE {})

\* A submission without the tools argument.
EngineRequestNoTools(msgs) == [messages |-> msgs, tools |-> <<>>]

\* The arguments of llm.messages.create (lines 55-60).
EngineRequest(msgs) == [messages |-> msgs, tools |-> tools]

\* The for loop from block i on (lines 75-104) and what follows it: the task
\* either awaits the call_tool of the next tool_use block, or it appends the
\* tool results (line 106) and awaits the next messages.create (line 55).
RunRound(r, msgs, blocks, i, results, traffic) ==
    LET loop == ToolLoop(blocks, i, results)
    IN  /\ idx' = [idx EXCEPT ![r] = loop.idx]
        /\ tool_results' = [tool_results EXCEPT ![r] = loop.results]
        /\ IF loop.at = "call"
           THEN /\ pc' = [pc EXCEPT ![r] = "tool"]
                /\ calls' = [calls EXCEPT ![r] =
                       Append(traffic,
                              [block |-> loop.idx,
                               name |-> blocks[loop.idx].name,
                               arguments |-> Normalise(blocks[loop.idx].input).value,
                               reply |-> "pending"])]
                /\ messages' = msgs
                /\ llm_request' = [llm_request EXCEPT ![r] = NoRequest]
           ELSE /\ pc' = [pc EXCEPT ![r] = "llm"]
                /\ calls' = [calls EXCEPT ![r] = traffic]
                /\ messages' = AppendTurn(msgs, ToolResultTurn(loop.results))
                /\ llm_request' = [llm_request EXCEPT ![r] = EngineRequest(messages')]

\* A front end that takes the reply for the whole history.
OverwriteHistory(hist, msgs) == ParseBody(msgs)

\* st.session_state.messages.extend(data["messages"][1:]), chatbot.py
\* 126-134: the Turns of the reply after its first are appended.
ExtendHistory(hist, msgs) == hist \o Tail(ParseBody(msgs))

\* st.session_state.messages.pop() of the except branch, chatbot.py 142.
PopHistory(hist) == SubSeq(hist, 1, Len(hist) - 1)

\* The history once the HTTP answer is there: a front end whose call has
\* failed before is no longer there to receive anything.
Replied(r, state, hist, answer) ==
    IF r \notin sessions \/ state # "waiting" THEN hist
    ELSE IF answer.status = 200 THEN ExtendHistory(hist, answer.messages)
    ELSE PopHistory(hist)

\* The front end's call once the HTTP answer is there (chatbot.py 124-142):
\* raise_for_status raises on a 500; a call that has failed before (it ran
\* into its timeout) is no longer there to receive anything.
Received(state, answer) ==
    IF state # "waiting" THEN state
    ELSE IF answer.status = 200 THEN "answered" ELSE "failed"

\* The task leaves process_query and the handler with the HTTP answer; the
\* locals of the loop go with the frame.
Finish(r, answer) ==
    /\ pc' = [pc EXCEPT ![r] = "done"]
    /\ result' = [result EXCEPT ![r] = answer]
    /\ caller' = [caller EXCEPT ![r] = Received(caller[r], answer)]
    /\ history' = [history EXCEPT ![r] = Replied(r, caller[r], history[r], answer)]
    /\ rounds' = [rounds EXCEPT ![r] = 0]
    /\ llm_request' = [llm_request EXCEPT ![r] = NoRequest]
    /\ idx' = [idx EXCEPT ![r] = 0]
    /\ tool_results' = [tool_results EXCEPT ![r] = <<>>]
    /\ calls' = [calls EXCEPT ![r] = <<>>]

\* POST /query arrives: the handler calls process_query, which resets
\* self.messages (line 51) and awaits its first messages.create.
Start(r) ==
    /\ phase = "serving"
    /\ ~InFlight(r)
    /\ accepted < MaxQueries
    /\ accepted' = accepted + 1
    /\ qid' = [qid EXCEPT ![r] = accepted + 1]
    /\ messages' = NewStore(messages, accepted + 1)
    /\ llm_request' = [llm_request EXCEPT ![r] = EngineRequest(messages')]
    /\ pc' = [pc EXCEPT ![r] = "llm"]
    /\ response' = [response EXCEPT ![r] = <<>>]
    /\ idx' = [idx EXCEPT ![r] = 0]
    /\ tool_results' = [tool_results EXCEPT ![r] = <<>>]
    /\ calls' = [calls EXCEPT ![r] = <<>>]
    /\ result' = [result EXCEPT ![r] = NoResult]
    /\ caller' = [caller EXCEPT ![r] = "waiting"]
    /\ history' = [history EXCEPT ![r] =
           IF r \in sessions THEN Append(history[r], UserTurn(accepted + 1))
           ELSE history[r]]
    /\ rounds' = [rounds EXCEPT ![r] = 0]
    /\ UNCHANGED tool_rounds
    /\ UNCHANGED lifecycle

\* messages.create returns (lines 62-71, then 108-122 or 73-106).
LLMResponds(r) ==
    /\ pc[r] = "llm"
    /\ \E blocks \in EngineResponses(qid[r]) :
         LET msgs == AppendTurn(messages, AssistantTurn(blocks))
         IN  /\ response' = [response EXCEPT ![r] = blocks]
             /\ IF Breaks(blocks, rounds[r])
                THEN /\ messages' = msgs
                     /\ Finish(r, HandlerReturns(Serialize(msgs)))
                     /\ UNCHANGED tool_rounds
                ELSE /\ tool_rounds' = tool_rounds + 1
                     /\ rounds' = [rounds EXCEPT ![r] = @ + 1]
                     /\ RunRound(r, msgs, blocks, 1, <<>>, <<>>)
                     /\ UNCHANGED <<result, caller, history>>
    /\ UNCHANGED <<accepted, qid>>
    /\ UNCHANGED lifecycle

\* messages.create raises: the exception leaves process_query and the
\* handler turns it into HTTPException(500).
LLMRaises(r) ==
    /\ pc[r] = "llm"
    /\ Finish(r, HandlerRaises("APIError"))
    /\ UNCHANGED <<accepted, tool_rounds, messages, qid, response>>
    /\ UNCHANGED lifecycle

\* call_tool is over, with a result or an exception (lines 86-104), and the
\* for loop goes on.
ToolReplies(r) ==
    /\ pc[r] = "tool"
    /\ \E reply \in TransportReplies(response[r][idx[r]].name) :
         LET block == response[r][idx[r]]
             kind == IF reply.raised THEN "raised"
                     ELSE IF reply.isError THEN "flagged" ELSE "ok"
             traffic == [calls[r] EXCEPT ![Len(calls[r])].reply = kind]
         IN  IF reply.raised /\ ~Caught(reply.error)
             THEN /\ Finish(r, HandlerRaises(reply.error))
                  /\ UNCHANGED messages
             ELSE /\ RunRound(r, messages, response[r], idx[r] + 1,
                              Record(tool_results[r], Outcome(block, reply)),
                              traffic)
                  /\ UNCHANGED <<result, caller, rounds, history>>
    /\ UNCHANGED <<accepted, tool_rounds, qid, response>>
    /\ UNCHANGED lifecycle

\* The request task is cancelled while it awaits messages.create (line 55)
\* or call_tool (line 86): CancelledError is raised there; neither the
\* except Exception of line 95 nor that of the handler catches it, so the
\* task ends without an HTTP answer and self.messages stays as it is.
Cancel(r) ==
    /\ InFlight(r)
    /\ pc' = [pc EXCEPT ![r] = "cancelled"]
    /\ llm_request' = [llm_request EXCEPT ![r] = NoRequest]
    /\ idx' = [idx EXCEPT ![r] = 0]
    /\ tool_results' = [tool_results EXCEPT ![r] = <<>>]
    /\ calls' = [calls EXCEPT ![r] = <<>>]
    /\ caller' = [caller EXCEPT ![r] =
           IF caller[r] = "waiting" THEN "failed" ELSE caller[r]]
    /\ history' = [history EXCEPT ![r] =
           IF r \in sessions /\ caller[r] = "waiting"
           THEN PopHistory(history[r]) ELSE history[r]]
    /\ rounds' = [rounds EXCEPT ![r] = 0]
    /\ UNCHANGED <<accepted, tool_rounds, messages, qid, response, result>>
    /\ UNCHANGED lifecycle

\* The front end's httpx call runs into its timeout (chatbot.py 123): it
\* raises in the front end, which reports the error as it does for any
\* failure of the call.  Nothing cancels the request task of the backend,
\* which goes on.
CallerTimesOut(r) ==
    /\ InFlight(r)
    /\ caller[r] = "waiting"
    /\ caller' = [caller EXCEPT ![r] = "failed"]
    /\ history' = [history EXCEPT ![r] =
           IF r \in sessions THEN PopHistory(history[r]) ELSE history[r]]
    /\ UNCHANGED <<accepted, tool_rounds, messages, pc, qid, response, idx,
                   tool_results, calls, llm_request, result, rounds>>
    /\ UNCHANGED lifecycle

Next ==
    \/ ConnectStdio
    \/ ConnectSession
    \/ ConnectInitialize
    \/ ConnectListTools
    \/ Shutdown
    \/ \E r \in Requests : Start(r)
    \/ \E r \in Requests : LLMResponds(r)
    \/ \E r \in Requests : LLMRaises(r)
    \/ \E r \in Requests : ToolReplies(r)
    \/ \E r \in Requests : Cancel(r)
    \/ \E r \in Requests : CallerTimesOut(r)

Spec == Init /\ [][Next]_vars

\* The runs in which the requests come one after the other.
SeqNext == Next /\ Cardinality({r \in Requests : InFlight(r)'}) <= 1

SeqSpec == Init /\ [][SeqNext]_vars

\* The runs in which a Streamlit session is one of the clients.
FrontSpec == FrontInit /\ [][Next]_vars

\* The runs against the engine that always asks for a tool.
LoopSpec == LoopInit /\ [][Next]_vars

\* Every engine call and every tool call is over at some time.
FairSpec ==
    /\ Spec
    /\ \A r \in Requests : WF_vars(LLMResponds(r) \/ LLMRaises(r))
    /\ \A r \in Requests : WF_vars(ToolReplies(r))

\* ------------------------------------------------------------- claims
IsToolUse(block) == block.type = "tool_use"
IsErrorOutcome(o) == "is_error" \in DOMAIN o /\ o.is_error = TRUE

\* The call identifiers of the tool_use blocks of a response, in order.
ToolUseIds(blocks) ==
    LET uses == SelectSeq(blocks, IsToolUse)
    IN  [j \in 1..Len(uses) |-> uses[j].id]

\* The call identifiers a sequence of outcomes answers, in order.
OutcomeIds(results) == [j \in 1..Len(results) |-> results[j].tool_use_id]

\* The blocks of the current response the for loop is through with.
Processed(r) == {i \in 1..Len(response[r]) : i < idx[r]}

\* The outcomes recorded so far for the call with identifier id.
OutcomesFor(r, id) ==
    {j \in 1..Len(tool_results[r]) : tool_results[r][j].tool_use_id = id}

Returned(r) == pc[r] = "done" /\ result[r].status = 200

\* C1: a query whose engine calls and tool calls all return (none raises,
\* the task is not cancelled), and whose engine gives a response without
\* tool call at some time, ends; the last
\* Turn of the transcript it returns is the assistant Turn holding that
\* response, which has no tool_use block.
C1_TerminatesWithFinalTurn ==
    /\ [](\A r \in Requests :
            Returned(r) =>
              /\ \A i \in 1..Len(response[r]) : response[r][i].type # "tool_use"
              /\ Last(result[r].messages).role = "assistant"
              /\ Last(result[r].messages).content.py = "list"
              /\ Len(Last(result[r].messages).content.items) = Len(response[r])
              /\ \A i \in 1..Len(response[r]) :
                   Last(result[r].messages).content.items[i] =
                       [response[r][i] EXCEPT !.cls = "dict"])
    /\ \A r \in Requests :
         InFlight(r) ~>
           \/ pc[r] = "done" /\ (result[r].status = 200 \/ result[r].detail = "APIError")
           \/ pc[r] = "cancelled"

\* A query has returned its transcript after one round of tool calls.
C1_Witness ==
    \E r \in Requests : Returned(r) /\ Len(result[r].messages) >= 4

\* Every tool_use block of every assistant Turn of msgs is answered by
\* exactly one outcome with its identifier, in the Turn right after it.
AllCallsAnswered(msgs) ==
    \A n \in 1..Len(msgs) :
      (msgs[n].role = "assistant" /\ msgs[n].content.py = "list") =>
        \A i \in 1..Len(msgs[n].content.items) :
          msgs[n].content.items[i].type = "tool_use" =>
            /\ n < Len(msgs)
            /\ msgs[n + 1].content.py = "list"
            /\ Cardinality({j \in 1..Len(msgs[n + 1].content.items) :
                   /\ msgs[n + 1].content.items[j].type = "tool_result"
                   /\ msgs[n + 1].content.items[j].tool_use_id =
                          msgs[n].content.items[i].id}) = 1

\* C2: in every request submitted to the engine, every tool-call of every
\* assistant Turn is answered by exactly one outcome with the same call
\* identifier in the Turn right after it.  (It holds under SeqSpec.)
C2_SubmissionsAnswered ==
    \A r \in Requests : pc[r] = "llm" => AllCallsAnswered(llm_request[r].messages)

\* C3: the outcomes of a round are in the order of the tool_use blocks of
\* the round's response, during the round and in the tool-result Turn that
\* is appended and submitted at its end, whatever the calls answer.
C3_OutcomeOrder ==
    \A r \in Requests :
      InFlight(r) =>
        /\ OutcomeIds(tool_results[r]) =
               ToolUseIds(SubSeq(response[r], 1, Cardinality(Processed(r))))
        /\ (pc[r] = "llm" /\ response[r] # <<>>) =>
             /\ Last(llm_request[r].messages).role = "user"
             /\ Last(llm_request[r].messages).content.py = "list"
             /\ OutcomeIds(Last(llm_request[r].messages).content.items) =
                    ToolUseIds(response[r])

\* A round of three tool calls is over with outcomes of different kinds.
C3_Witness ==
    \E r \in Requests :
      /\ pc[r] = "llm"
      /\ Len(tool_results[r]) = 3
      /\ ~IsErrorOutcome(tool_results[r][1])
      /\ IsErrorOutcome(tool_results[r][2])

\* The call_tool exchanges of the current round that ended the way kind says.
CallsThat(r, kind) == {k \in 1..Len(calls[r]) : calls[r][k].reply = kind}

\* The identifier of the tool_use block call k of the round was made for.
CallId(r, k) == response[r][calls[r][k].block].id

\* C4: a call_tool that raises does not make process_query raise (only an
\* engine failure ends a query with an error); the call gets one outcome
\* with its identifier, is_error = TRUE and the error text; the blocks
\* after it are still gone through, every one whose arguments decode being
\* dispatched; and the outcome is in the tool-result Turn that is appended
\* and submitted to the engine.
C4_ToolFailureIsolated ==
    \A r \in Requests :
      /\ (pc[r] = "done" /\ result[r].status = 500) => result[r].detail = "APIError"
      /\ InFlight(r) =>
           /\ \A k \in CallsThat(r, "raised") :
                /\ Cardinality(OutcomesFor(r, CallId(r, k))) = 1
                /\ \A j \in OutcomesFor(r, CallId(r, k)) :
                     /\ IsErrorOutcome(tool_results[r][j])
                     /\ tool_results[r][j].content[1].text =
                            <<"Error executing tool: ", "McpError">>
                /\ pc[r] = "llm" =>
                     \E j \in 1..Len(Last(llm_request[r].messages).content.items) :
                       /\ Last(llm_request[r].messages).content.items[j].tool_use_id =
                              CallId(r, k)
                       /\ IsErrorOutcome(Last(llm_request[r].messages).content.items[j])
           /\ \A i \in Processed(r) :
                (IsToolUse(response[r][i]) /\ response[r][i].input # BrokenInput) =>
                  \E k \in 1..Len(calls[r]) : calls[r][k].block = i

\* The first call of a round raised, a later call of the round was made,
\* and the round's outcomes have been submitted to the engine.
C4_Witness ==
    \E r \in Requests :
      /\ pc[r] = "llm"
      /\ Len(calls[r]) = 2
      /\ calls[r][1].reply = "raised"

\* C5: a call the tool side answers with its failure flag on gets an
\* outcome with is_error = TRUE.
C5_FlaggedIsError ==
    \A r \in Requests :
      InFlight(r) =>
        \A k \in CallsThat(r, "flagged") :
          \A j \in OutcomesFor(r, CallId(r, k)) : IsErrorOutcome(tool_results[r][j])

C7_SingleFlight ==
    /\ Cardinality({r \in Requests : InFlight(r)}) <= 1
    /\ \A r \in Requests :
         /\ pc[r] = "llm" => llm_request[r].messages[1] = UserTurn(qid[r])
         /\ Returned(r) => result[r].messages[1] = UserTurn(qid[r])

\* C8 as the specification words it: no step removes or rewrites a Turn.
C8_AppendOnly == [][IsPrefix(messages, messages')]_vars

\* C8, amended: the first statement of process_query replaces the store by
\* the one user Turn of the new query; every other step leaves every Turn
\* in place and unchanged, it only appends.
C8_AppendOnlyBetweenResets ==
    [][IF \E r \in Requests : Start(r)
       THEN messages' = <<UserTurn(accepted')>>
       ELSE IsPrefix(messages, messages')]_vars

\* A second query has reset the store and Turns have been appended since.
C8_Witness == accepted = 2 /\ Len(messages) >= 3

\* C9: an engine call that raises ends the query with HTTP 500 and without
\* any transcript, at the first engine call as after a round of tool calls.
C9_EngineFailureIs500 ==
    [][\A r \in Requests :
         LLMRaises(r) =>
           /\ pc'[r] = "done"
           /\ result'[r].status = 500
           /\ "messages" \notin DOMAIN result'[r]
           /\ messages' = messages]_vars

\* The engine failed after a round of tool calls and the query is over.
C9_Witness ==
    \E r \in Requests :
      pc[r] = "done" /\ result[r].status = 500 /\ response[r] # <<>>

\* C10: cleanup runs at most once; it has run exactly once when lifespan is
\* left, after a shutdown as after a failure of any step of
\* connect_to_server; it has not run while the application serves, and
\* once it has run every context of the exit stack is closed.
C10_TeardownExactlyOnce ==
    /\ cleanups <= 1
    /\ phase \in {"stopped", "crashed"} <=> cleanups = 1
    /\ cleanups = 1 => exit_stack = <<>> /\ \A r \in Requests : ~InFlight(r)
    /\ phase = "serving" => cleanups = 0

\* The application has served every query it could and has shut down.
C10_Witness == phase = "stopped" /\ accepted = MaxQueries /\ cleanups = 1

\* The Tool Descriptor Set list_tools yields for the tools of server.py.
FetchedTools == [i \in 1..Len(ServerTools) |-> ToolDescriptor(ServerTools[i])]

\* C11: a query is accepted and processed only once connect_to_server has
\* gone through all of its steps: both contexts entered, the session there
\* and initialized, the Tool Descriptor Set fetched.  After a failure of
\* any step the application has accepted no query and accepts none.
C11_NoQueryBeforeConnected ==
    /\ accepted > 0 =>
         /\ session = "ClientSession"
         /\ initialized
         /\ tools = FetchedTools
         /\ phase \in {"serving", "stopped"}
    /\ \A r \in Requests :
         InFlight(r) =>
           /\ phase = "serving"
           /\ exit_stack = <<"stdio_client", "ClientSession">>
    /\ phase = "crashed" => accepted = 0 /\ \A r \in Requests : pc[r] = "idle"

\* A query is being processed.
C11_Witness == \E r \in Requests : pc[r] = "tool" /\ phase = "serving"

\* C12: every call_tool the orchestrator makes names a tool of the Tool
\* Descriptor Set; a tool_use block naming another tool is not dispatched
\* and gets an is_error outcome.
C12_OnlyAdvertisedToolsDispatched ==
    \A r \in Requests :
      InFlight(r) =>
        /\ \A k \in 1..Len(calls[r]) :
             \E i \in 1..Len(tools) : tools[i].name = calls[r][k].name
        /\ \A i \in Processed(r) :
             (/\ IsToolUse(response[r][i])
              /\ \A n \in 1..Len(tools) : tools[n].name # response[r][i].name) =>
               \A j \in OutcomesFor(r, response[r][i].id) :
                 IsErrorOutcome(tool_results[r][j])

\* Every tool_use block of question q in msgs has an outcome with its
\* identifier in a later Turn of msgs.
OwnCallsAnswered(q, msgs) ==
    \A n \in 1..Len(msgs) :
      (msgs[n].role = "assistant" /\ msgs[n].content.py = "list") =>
        \A i \in 1..Len(msgs[n].content.items) :
          (/\ msgs[n].content.items[i].type = "tool_use"
           /\ msgs[n].content.items[i].id[1] = q) =>
            \E m \in (n + 1)..Len(msgs) :
              /\ msgs[m].content.py = "list"
              /\ \E j \in 1..Len(msgs[m].content.items) :
                   /\ msgs[m].content.items[j].type = "tool_result"
                   /\ msgs[m].content.items[j].tool_use_id =
                          msgs[n].content.items[i].id

\* C13: a query cancelled at any await leaves no assistant Turn of its own
\* in the Conversation Store with a tool-call that has no outcome.
C13_CancelLeavesNoOpenCall ==
    [][\A r \in Requests : Cancel(r) => OwnCallsAnswered(qid[r], messages')]_vars

\* C14: once the caller's time bound is over during an engine call, the
\* caller has a failure and no transcript, and the query makes no further
\* engine submission, tool dispatch or change of the Conversation Store.
C14_TimedOutQueryStops ==
    [][\A r \in Requests :
         (InFlight(r) /\ caller[r] = "failed") =>
           /\ caller'[r] = "failed"
           /\ ~LLMResponds(r)
           /\ ~ToolReplies(r)]_vars

\* The payloads the transport returns for a call of tool name that succeeds.
OkPayloads(name) ==
    {reply.content : reply \in {t \in TransportReplies(name) :
                                   ~t.raised /\ ~t.isError}}

\* C15: a call_tool that returns a result without failure flag gets one
\* outcome with the call's identifier and without error mark whose content
\* is the payload as the transport returned it; so it is in the tool-result
\* Turn appended at the end of the round.
C15_SuccessOutcome ==
    \A r \in Requests :
      InFlight(r) =>
        \A k \in CallsThat(r, "ok") :
          /\ Cardinality(OutcomesFor(r, CallId(r, k))) = 1
          /\ \A j \in OutcomesFor(r, CallId(r, k)) :
               /\ tool_results[r][j].type = "tool_result"
               /\ "is_error" \notin DOMAIN tool_results[r][j]
               /\ tool_results[r][j].content \in OkPayloads(calls[r][k].name)
               /\ pc[r] = "llm" =>
                    Last(llm_request[r].messages).content.items[j] =
                        tool_results[r][j]

\* A call of a round has succeeded and the round's outcomes are submitted.
C15_Witness ==
    \E r \in Requests :
      /\ pc[r] = "llm"
      /\ CallsThat(r, "ok") # {}
      /\ Last(llm_request[r].messages) = ToolResultTurn(tool_results[r])

\* What tells a block from the others of its Turn: its type and, where it
\* has one, the call identifier.
BlockKey(item) ==
    <<item.type,
      IF item.type = "tool_use" THEN item.id
      ELSE IF item.type = "tool_result" THEN item.tool_use_id
      ELSE <<>>>>

\* out has the Turns of store, in its order and with its roles, and every
\* Turn the blocks of the store's Turn, in its order.
SameShape(out, store) ==
    /\ Len(out) = Len(store)
    /\ \A n \in 1..Len(store) :
         /\ out[n].role = store[n].role
         /\ out[n].content.py = store[n].content.py
         /\ IF store[n].content.py = "list"
            THEN /\ Len(out[n].content.items) = Len(store[n].content.items)
                 /\ \A i \in 1..Len(store[n].content.items) :
                      BlockKey(out[n].content.items[i]) =
                          BlockKey(store[n].content.items[i])
            ELSE out[n].content = store[n].content

\* The step in which process_query of request r returns its transcript.
Returns(r) == pc[r] = "llm" /\ pc'[r] = "done" /\ result'[r].status = 200

\* C16: the transcript process_query returns has the Turns of the
\* Conversation Store as it is at the return, same number, order and roles,
\* and in every Turn the blocks of the store's Turn in the same number and
\* order.
C16_SerializedSameShape ==
    [][\A r \in Requests :
         Returns(r) => SameShape(result'[r].messages, messages')]_vars

\* A transcript with a tool-result Turn of three outcomes has been returned.
C16_Witness ==
    \E r \in Requests :
      /\ Returned(r)
      /\ \E n \in 1..Len(result[r].messages) :
           /\ result[r].messages[n].role = "user"
           /\ result[r].messages[n].content.py = "list"
           /\ Len(result[r].messages[n].content.items) = 3

\* x and y have the same fields with the same values, the class aside.
SameFields(x, y) ==
    /\ DOMAIN x = DOMAIN y
    /\ \A f \in DOMAIN x \ {"cls", "content"} : x[f] = y[f]

SameBlock(x, y) ==
    /\ SameFields(x, y)
    /\ "content" \in DOMAIN x =>
         /\ Len(x.content) = Len(y.content)
         /\ \A i \in 1..Len(x.content) : SameFields(x.content[i], y.content[i])

\* Structural equality of two Turn sequences: roles, block order and block
\* fields.
StructEq(a, b) ==
    /\ Len(a) = Len(b)
    /\ \A n \in 1..Len(a) :
         /\ a[n].role = b[n].role
         /\ a[n].content.py = b[n].content.py
         /\ IF a[n].content.py = "list"
            THEN /\ Len(a[n].content.items) = Len(b[n].content.items)
                 /\ \A i \in 1..Len(a[n].content.items) :
                      SameBlock(a[n].content.items[i], b[n].content.items[i])
            ELSE a[n].content = b[n].content

QueryStep ==
    \E r \in Requests :
      Start(r) \/ LLMResponds(r) \/ LLMRaises(r) \/ ToolReplies(r) \/ Cancel(r)

\* C18: only connect_to_server writes the Tool Descriptor Set; no step of a
\* query changes it, whether the query goes well or fails, and every
\* submission to the engine carries the set connect_to_server fetched.
C18_ToolsFrame ==
    /\ [](\A r \in Requests :
            pc[r] = "llm" =>
              /\ llm_request[r].tools = FetchedTools
              /\ llm_request[r].tools = tools)
    /\ [][(tools' # tools => ConnectListTools) /\ (QueryStep => tools' = tools)]_vars

\* A submission is under way after a round of tool calls, in a process run
\* in which an earlier query has failed.
C18_Witness ==
    \E r \in Requests :
      /\ pc[r] = "llm"
      /\ response[r] # <<>>
      /\ \E o \in Requests : pc[o] = "done" /\ result[o].status = 500

HasToolUse(turn) ==
    \E i \in 1..Len(turn.content.items) : turn.content.items[i].type = "tool_use"

\* The kind of a Turn of a transcript.
Kind(turn) ==
    IF turn.content.py = "str" THEN "question"
    ELSE IF turn.role = "user" THEN "tool_result"
    ELSE IF HasToolUse(turn) THEN "assistant_call"
    ELSE "assistant_final"

\* C19: a query that returns after k tool rounds returns 2k + 2 Turns: the
\* question, k pairs of an assistant Turn with a tool call and a tool-result
\* Turn, and one assistant Turn without tool call; no two Turns in a row
\* are of the same kind.  (It holds under SeqSpec.)
C19_TranscriptShape ==
    [][\A r \in Requests :
         Returns(r) =>
           LET out == result'[r].messages
               k == rounds[r]
           IN  /\ Len(out) = 2 * k + 2
               /\ Kind(out[1]) = "question"
               /\ \A j \in 1..k :
                    /\ Kind(out[2 * j]) = "assistant_call"
                    /\ Kind(out[2 * j + 1]) = "tool_result"
               /\ Kind(out[Len(out)]) = "assistant_final"
               /\ \A n \in 1..(Len(out) - 1) : Kind(out[n]) # Kind(out[n + 1])]_vars

\* The tool_use blocks of a response.
ToolUses(blocks) == {i \in 1..Len(blocks) : IsToolUse(blocks[i])}

\* C20: the loop stops if and only if the engine's latest response has no
\* tool_use block.  A response with a tool_use block, text blocks or not,
\* is not the final answer: its calls are gone through, outcomes are made
\* for its tool_use blocks only, and the next submission holds them.  After
\* a response without tool_use block the query submits and dispatches
\* nothing more.
C20_StopsIffNoToolCall ==
    /\ [](\A r \in Requests :
            /\ (pc[r] = "llm" /\ response[r] # <<>>) =>
                 /\ ToolUses(response[r]) # {}
                 /\ Len(tool_results[r]) = Cardinality(ToolUses(response[r]))
                 /\ \A j \in 1..Len(tool_results[r]) :
                      \E i \in ToolUses(response[r]) :
                        tool_results[r][j].tool_use_id = response[r][i].id
                 /\ Last(llm_request[r].messages) = ToolResultTurn(tool_results[r])
            /\ pc[r] = "tool" => IsToolUse(response[r][idx[r]])
            /\ pc[r] = "done" => llm_request[r] = NoRequest /\ calls[r] = <<>>)
    /\ [][\A r \in Requests :
            /\ LLMResponds(r) =>
                 /\ Returns(r) <=> ToolUses(response'[r]) = {}
                 /\ ~Returns(r) => pc'[r] \in {"tool", "llm"}
            /\ pc[r] = "done" => (pc'[r] = "done" \/ Start(r))]_vars

\* A response of three tool_use blocks and a text block got its three
\* outcomes, which are submitted; another query has got its final answer.
C20_Witness ==
    \E r \in Requests :
      /\ pc[r] = "llm"
      /\ Len(response[r]) = 4
      /\ Cardinality(ToolUses(response[r])) = 3
      /\ Len(tool_results[r]) = 3
      /\ \E o \in Requests : Returned(o)

\* The query a Turn was produced for, where the Turn tells: the question
\* it holds, or the query of the call identifiers of its blocks.
QueriesOf(turn) ==
    IF turn.content.py = "str"
    THEN {turn.content.chars[1]}
    ELSE {BlockKey(turn.content.items[i])[2][1] :
            i \in {j \in 1..Len(turn.content.items) :
                     turn.content.items[j].type # "text"}}

\* msgs begins with the question of query q and holds no other question
\* and no block of another query.
OwnTurnsOnly(q, msgs) ==
    /\ msgs # <<>>
    /\ msgs[1].role = "user"
    /\ msgs[1].content = PyStr(<<q>>)
    /\ \A n \in 2..Len(msgs) : msgs[n].content.py = "list"
    /\ \A n \in 1..Len(msgs) : QueriesOf(msgs[n]) \subseteq {q}

\* C21: with the queries of a session one after the other, the transcript
\* returned for a query begins with the query's own question and holds
\* Turns of that query only, and so does every submission to the engine.
C21_OwnTurnsOnly ==
    \A r \in Requests :
      /\ Returned(r) => OwnTurnsOnly(qid[r], result[r].messages)
      /\ pc[r] = "llm" => OwnTurnsOnly(qid[r], llm_request[r].messages)

\* The second query of a session has returned a transcript with a round of
\* tool calls, after the first has returned its own.
C21_Witness ==
    \E r \in Requests :
      /\ Returned(r)
      /\ qid[r] = 2
      /\ Len(result[r].messages) = 4
      /\ \E o \in Requests : Returned(o) /\ qid[o] = 1

\* C22: the tool calls of a round are dispatched one at a time and in the
\* order of the response's blocks: a call is dispatched only when every
\* tool_use block before it has its outcome, no call but the one awaited
\* is open, and no block is dispatched twice, whatever its call answered.
C22_SequentialDispatch ==
    \A r \in Requests :
      InFlight(r) =>
        /\ \A k \in 1..Len(calls[r]) :
             /\ IsToolUse(response[r][calls[r][k].block])
             /\ calls[r][k].name = response[r][calls[r][k].block].name
             /\ k < Len(calls[r]) =>
                  /\ calls[r][k].block < calls[r][k + 1].block
                  /\ calls[r][k].reply # "pending"
        /\ pc[r] = "tool" =>
             /\ calls[r] # <<>>
             /\ Last(calls[r]).block = idx[r]
             /\ Last(calls[r]).reply = "pending"
             /\ OutcomeIds(tool_results[r]) =
                    ToolUseIds(SubSeq(response[r], 1, idx[r] - 1))
        /\ pc[r] = "llm" =>
             \A k \in 1..Len(calls[r]) : calls[r][k].reply # "pending"

\* The second call of a round is under way after the first has raised.
C22_Witness ==
    \E r \in Requests :
      /\ pc[r] = "tool"
      /\ Len(calls[r]) = 2
      /\ calls[r][1].reply = "raised"

\* C23: process_query puts no bound on the rounds.  Against an engine that
\* answers every submission with a tool call, every response starts one
\* more round, whatever the number of rounds before, the round's outcomes
\* are submitted, and no query ever returns.
C23_NoRoundBound ==
    /\ [](\A r \in Requests :
            /\ ~Returned(r)
            /\ (pc[r] = "llm" /\ rounds[r] > 0) =>
                 /\ Len(tool_results[r]) = 1
                 /\ Last(llm_request[r].messages) = ToolResultTurn(tool_results[r]))
    /\ [][\A r \in Requests :
            LLMResponds(r) =>
              /\ rounds'[r] = rounds[r] + 1
              /\ pc'[r] = "tool"]_vars

\* One query has gone through as many rounds as the engine gave responses
\* and has submitted the outcomes of the last.
C23_Witness ==
    \E r \in Requests : pc[r] = "llm" /\ rounds[r] = MaxLoopRounds

\* C24: in a Streamlit session a submitted question is one entry more in
\* the history and one call of the backend.  While the call is pending the
\* question is the last entry and the history stays as it is.  If the call
\* fails (HTTP 500, timeout, connection lost), the history is again what it
\* was before the question: the question is removed and nothing else.  If
\* it succeeds, the entries there are stay as they are and the Turns of the
\* reply after its first are appended after the question.
C24_HistoryRestoredOrExtended ==
    /\ [](\A r \in sessions :
            caller[r] = "waiting" =>
              /\ InFlight(r)
              /\ history[r] # <<>>
              /\ Last(history[r]) = UserTurn(qid[r]))
    /\ [][\A r \in sessions :
            IF Start(r)
            THEN /\ accepted' = accepted + 1
                 /\ history'[r] = Append(history[r], UserTurn(accepted'))
            ELSE IF caller[r] = "waiting" /\ caller'[r] = "failed"
            THEN Append(history'[r], UserTurn(qid[r])) = history[r]
            ELSE IF caller[r] = "waiting" /\ caller'[r] = "answered"
            THEN /\ IsPrefix(history[r], history'[r])
                 /\ Len(history'[r]) = Len(history[r]) + Len(result'[r].messages) - 1
                 /\ StructEq(SubSeq(history'[r], Len(history[r]) + 1, Len(history'[r])),
                             Tail(result'[r].messages))
            ELSE /\ history'[r] = history[r]
                 /\ caller'[r] = caller[r]]_vars

\* The session's first question was answered with a round of tool calls;
\* the call for its second has failed and the history is without it.
C24_Witness ==
    \E r \in sessions :
      /\ caller[r] = "failed"
      /\ qid[r] = 2
      /\ Len(history[r]) = 4
      /\ history[r][1] = UserTurn(1)

====
